---- MODULE Spec2Model ----
(***************************************************************************)
(* Augmented Dickey-Fuller test with AIC lag selection and table-based     *)
(* p-value interpolation (adf_test/src/enhanced_lib.rs).                   *)
(*                                                                         *)
(* Number representation.  f64 test statistics and table keys are integers *)
(* in hundredths (-2.86 is -286); the three non-finite f64 values are the  *)
(* reserved codes NaN, PosInf and NegInf, and every comparison goes        *)
(* through FLt/FLe/FGe/FEq, which are false on NaN as IEEE-754 comparisons *)
(* are.  p-values are exact rationals [num, den] in units of 1/PScale      *)
(* (den = 0 is the non-finite quotient of a division by zero).             *)
(*                                                                         *)
(* The dense linear algebra (nalgebra's try_inverse and the products built *)
(* from it) is a black box: each regression draws its numeric outputs      *)
(* (inversion success, ssr, the sign class of (X'X)^-1[1][1], the          *)
(* t-ratio) from small sets.  Everything computed from those outputs is    *)
(* computed as the code computes it.                                       *)
(***************************************************************************)
EXTENDS Integers, Sequences, FiniteSets, TLC

(* ------------------------------ bounds --------------------------------- *)
\* longest series passed to calculate_complete_adf_test
MaxLen == 8
\* longest lookup table of the table family
MaxTableLen == 4
\* longest series handed to determine_lag_range on its own
MaxSeriesLen == 30
\* largest lag handed to calculate_adf_for_lags on its own
MaxUnitLag == 4

(* ------------------------- f64 values ---------------------------------- *)
NaN == 2000000
PosInf == 1000000
NegInf == -1000000

FLt(a, b) == a # NaN /\ b # NaN /\ a < b
FLe(a, b) == a # NaN /\ b # NaN /\ a <= b
FGe(a, b) == a # NaN /\ b # NaN /\ a >= b
FEq(a, b) == a # NaN /\ b # NaN /\ a = b

\* units of a p-value: 1.0 is PScale
PScale == 100000
MkP(v) == [num |-> v, den |-> 1]
\* p <= c / PScale as f64 `<=` decides it (false on a non-finite p)
PLeConst(p, c) == p.den > 0 /\ p.num <= c * p.den

Min(a, b) == IF a <= b THEN a ELSE b
Max(a, b) == IF a >= b THEN a ELSE b
SaturatingSub(a, b) == IF a >= b THEN a - b ELSE 0

\* usize::MAX, what `0 - 1` wraps to when overflow checks are compiled out
USIZE_MAX == 2147483647

(* --------------------------- lookup table ------------------------------ *)
\* the table as the source spells it, keys rounded to hundredths
ADF_P_VALUE_LOOKUP ==
    << [key |-> -498, p |-> 2], [key |-> -496, p |-> 4], [key |-> 234, p |-> 100000] >>

KeyVals == {-498, -286, 234}
PVals == {5000, 100000}
Entry == [key : KeyVals, p : PVals]

IsSortedTable(t, len) == \A i \in 1..(len - 1) : t[i].key <= t[i + 1].key

\* tables in non-decreasing key order (repeated keys included) whose key
\* range is not a single point, as the first and last entries of the source are
SortedTables ==
    UNION { { t \in [1..len -> Entry] : IsSortedTable(t, len) /\ t[1].key < t[len].key }
            : len \in 2..MaxTableLen }

Tables == {ADF_P_VALUE_LOOKUP} \cup SortedTables

(* --------------------------- variables --------------------------------- *)
VARIABLES
    table,                   \* ADF_P_VALUE_LOOKUP of this build
    pc,                      \* "idle", "loop", "done", "panic"
    entry,                   \* which function was called
    n,                       \* data.len()
    model_type,              \* the model tag
    lag_range,               \* (min_lags, max_lags)
    current_lags,            \* loop variable of the lag search
    min_aic,
    optimal_test_statistic,
    optimal_lags_used,
    optimal_aic,
    evaluated,               \* history: outcome of calculate_adf_for_lags per lag tried
    search,                  \* history: what interpolate_p_value did
    result                   \* the returned record

vars == << table, pc, entry, n, model_type, lag_range, current_lags, min_aic,
           optimal_test_statistic, optimal_lags_used, optimal_aic, evaluated,
           search, result >>

NoResult == [kind |-> "none"]
NoSearch == [called |-> FALSE, entered |-> FALSE, idx |-> 0, outcome |-> "none"]

(* ------------------------ determine_lag_range -------------------------- *)
LagCap == 12

determine_lag_range_cap13(len, tag) ==
    IF tag = "ols"
    THEN LET min_lags == 0
             max_lags == Min(13, SaturatingSub(len, 3) \div 2)
         IN << min_lags, Max(max_lags, min_lags) >>
    ELSE << 0, 1 >>

determine_lag_range(len, tag) ==
    IF tag = "ols"
    THEN LET min_lags == 0
             max_lags == Min(LagCap, SaturatingSub(len, 3) \div 2)
         IN << min_lags, Max(max_lags, min_lags) >>
    ELSE << 0, 1 >>

(* ----------------------- calculate_adf_for_lags ------------------------ *)
None == [some |-> FALSE]
Some(stat, ssr, n_obs, n_params) ==
    [some |-> TRUE, test_statistic |-> stat, ssr |-> ssr, n_obs |-> n_obs,
     n_params |-> n_params]

\* ssr is carried by its per-observation log level lv: ssr = n_obs * e^lv,
\* and NegInf stands for ssr = 0 (whose logarithm is -inf)
SsrLevels == {-1, 2}
SsrVals == SsrLevels \cup {NegInf}
\* t-ratios coefficients[1] / std_err a regression can produce
RegStats == {-400, 0}

\* what the numerical black box returns for one design matrix
BlackBox == [inv_ok : BOOLEAN, ssr : SsrVals, inv11_ok : BOOLEAN, t_ratio : RegStats]

\* data.windows(2).map(..).collect().len()
DiffLen(len) == SaturatingSub(len, 1)

InfeasibleNever(n_obs, n_params) == FALSE

\* the guard `n_obs < n_params`
Infeasible(n_obs, n_params) == n_obs < n_params

\* ssr / (n_obs - n_params) as f64: "nonfinite" on a zero divisor
MseClass(ssr, n_obs, n_params) ==
    IF n_obs = n_params THEN "nonfinite"
    ELSE IF ssr = NegInf THEN "zero"
    ELSE "pos"

\* std_err_1 > 1e-12 && std_err_1.is_finite(), with std_err_1 = sqrt(mse * xtx_inv[(1,1)])
StdErrOk(mse, inv11_ok) == mse = "pos" /\ inv11_ok

calculate_adf_for_lags(len, lags, bb) ==
    LET diff_len == DiffLen(len)
        effective_start_index == lags
    IN  IF diff_len <= effective_start_index THEN None
        ELSE LET n_obs == diff_len - effective_start_index
                 n_params == 2 + lags
             IN  IF n_obs = 0 THEN None
                 ELSE IF Infeasible(n_obs, n_params) THEN None
                 ELSE IF ~bb.inv_ok THEN None
                 ELSE IF StdErrOk(MseClass(bb.ssr, n_obs, n_params), bb.inv11_ok)
                      THEN Some(bb.t_ratio, bb.ssr, n_obs, n_params)
                      ELSE None

(* ----------------------------- calculate_aic --------------------------- *)
\* n * (ssr / n).ln() + 2.0 * k
calculate_aic(ssr, n_obs, n_params) ==
    LET ln_ssr_over_n == ssr      \* (ssr / n).ln() is the level ssr is carried by
    IN  IF ln_ssr_over_n = NegInf THEN NegInf ELSE n_obs * ln_ssr_over_n + 2 * n_params

AicImprovesLe(aic, best) == FLe(aic, best)

AicImprovesNe(aic, best) == aic # best

\* `aic < min_aic`
AicImproves(aic, best) == FLt(aic, best)

(* -------------------------- determine_stationarity --------------------- *)
critical_5_percent == -286
Alpha == 5000

determine_stationarity_le(test_statistic, p_value) ==
    PLeConst(p_value, Alpha) /\ FLe(test_statistic, critical_5_percent)

determine_stationarity(test_statistic, p_value) ==
    PLeConst(p_value, Alpha) /\ FLt(test_statistic, critical_5_percent)

critical_values == [c1 |-> -343, c5 |-> -286, c10 |-> -257]

create_default_adf_result ==
    [kind |-> "complete", test_statistic |-> 0, optimal_lags |-> 0, aic_value |-> PosInf,
     p_value |-> MkP(PScale), critical_values |-> critical_values, is_stationary |-> FALSE]

(* --------------------------- interpolate_p_value ----------------------- *)
\* table rows are indexed from 0 as in the source
Key(t, i) == t[i + 1].key
Pv(t, i) == t[i + 1].p

RECURSIVE BinarySearch(_, _, _, _, _, _)
\* the `while low <= high` loop; checks = overflow checks compiled in
BinarySearch(t, stat, low, high, idx, checks) ==
    IF low > high THEN [kind |-> "interval", mid |-> 0, idx |-> idx]
    ELSE LET mid == low + (high - low) \div 2
         IN  IF mid >= Len(t) THEN [kind |-> "index_panic", mid |-> mid, idx |-> idx]
             ELSE IF FEq(Key(t, mid), stat) THEN [kind |-> "match", mid |-> mid, idx |-> idx]
             ELSE IF FLt(Key(t, mid), stat)
                  THEN BinarySearch(t, stat, mid + 1, high, mid, checks)
             ELSE IF mid = 0
                  THEN IF checks THEN [kind |-> "underflow_panic", mid |-> mid, idx |-> idx]
                       ELSE BinarySearch(t, stat, low, USIZE_MAX, idx, checks)
             ELSE BinarySearch(t, stat, low, mid - 1, idx, checks)

InterpolateSum(x1, y1, x2, y2, stat) ==
    [num |-> y1 * (x2 - x1) + (stat - x1) * (y2 + y1), den |-> x2 - x1]

\* y1 + (test_statistic - x1) * (y2 - y1) / (x2 - x1)
Interpolate(x1, y1, x2, y2, stat) ==
    [num |-> y1 * (x2 - x1) + (stat - x1) * (y2 - y1), den |-> x2 - x1]

\* `test_statistic <= ADF_P_VALUE_LOOKUP[0][0]`
ClampLow(t, stat) == FLe(stat, Key(t, 0))

ClampHighValueFirst(t) == Pv(t, 0)

\* ADF_P_VALUE_LOOKUP[ADF_P_VALUE_LOOKUP.len() - 1][1]
ClampHighValue(t) == Pv(t, Len(t) - 1)

MatchValueStale(t, mid, idx) == Pv(t, idx)

\* `return ADF_P_VALUE_LOOKUP[mid][1]` on an exact match; idx is the loop's idx
MatchValue(t, mid, idx) == Pv(t, mid)

Returned(p, entered, idx, outcome) ==
    [ok |-> TRUE, p |-> p, entered |-> entered, idx |-> idx, outcome |-> outcome]
Panicked(entered, idx, outcome) ==
    [ok |-> FALSE, p |-> MkP(0), entered |-> entered, idx |-> idx, outcome |-> outcome]

interpolate_p_value(t, stat, checks) ==
    IF ClampLow(t, stat) THEN Returned(MkP(Pv(t, 0)), FALSE, 0, "clamp_low")
    ELSE IF FGe(stat, Key(t, Len(t) - 1))
         THEN Returned(MkP(ClampHighValue(t)), FALSE, 0, "clamp_high")
    ELSE LET bs == BinarySearch(t, stat, 0, Len(t) - 1, 0, checks)
         IN  CASE bs.kind = "match" ->
                    Returned(MkP(MatchValue(t, bs.mid, bs.idx)), TRUE, bs.mid, "match")
               [] bs.kind = "interval" ->
                    IF bs.idx + 1 >= Len(t)
                    THEN Panicked(TRUE, bs.idx, "index_panic")
                    ELSE Returned(Interpolate(Key(t, bs.idx), Pv(t, bs.idx),
                                              Key(t, bs.idx + 1), Pv(t, bs.idx + 1), stat),
                                  TRUE, bs.idx, "interval")
               [] OTHER -> Panicked(TRUE, bs.idx, bs.kind)

SearchOf(r) == [called |-> TRUE, entered |-> r.entered, idx |-> r.idx, outcome |-> r.outcome]

(* ------------------------------- Init ---------------------------------- *)
Init ==
    /\ table \in Tables
    /\ pc = "idle"
    /\ entry = "none"
    /\ n = 0
    /\ model_type = ""
    /\ lag_range = << 0, 0 >>
    /\ current_lags = 0
    /\ min_aic = PosInf
    /\ optimal_test_statistic = 0
    /\ optimal_lags_used = 0
    /\ optimal_aic = PosInf
    /\ evaluated = << >>
    /\ search = NoSearch
    /\ result = NoResult

Tags == {"ols", "gls"}
\* statistics a caller passes to get_adf_p_value_and_stationarity
StatVals == {NaN, NegInf, -600, -498, -497, -400, -286, 0, 234, 300, PosInf}

TooShortBelow4(len) == len < 4

\* `n < 5`
TooShort(len) == len < 5

(* -------------------- calculate_complete_adf_test ---------------------- *)
\* entry, the `n < 5` return and the initialisation of the search
CallComplete(len, tag) ==
    /\ pc = "idle"
    /\ entry' = "complete"
    /\ n' = len
    /\ model_type' = tag
    /\ IF TooShort(len)
       THEN /\ result' = create_default_adf_result
            /\ pc' = "done"
            /\ UNCHANGED << lag_range, current_lags >>
       ELSE /\ lag_range' = determine_lag_range(len, tag)
            /\ current_lags' = determine_lag_range(len, tag)[1]
            /\ pc' = "loop"
            /\ UNCHANGED result
    /\ min_aic' = PosInf
    /\ optimal_test_statistic' = 0
    /\ optimal_lags_used' = 0
    /\ optimal_aic' = PosInf
    /\ UNCHANGED << table, evaluated, search >>

\* one iteration of `for current_lags in min_lags..=max_lags`
LoopStep(bb) ==
    /\ pc = "loop"
    /\ current_lags <= lag_range[2]
    /\ LET r == calculate_adf_for_lags(n, current_lags, bb)
           aic == calculate_aic(r.ssr, r.n_obs, r.n_params)
       IN  /\ evaluated' = Append(evaluated, r)
           /\ IF r.some /\ AicImproves(aic, min_aic)
              THEN /\ min_aic' = aic
                   /\ optimal_test_statistic' = r.test_statistic
                   /\ optimal_lags_used' = current_lags
                   /\ optimal_aic' = aic
              ELSE UNCHANGED << min_aic, optimal_test_statistic, optimal_lags_used,
                                optimal_aic >>
    /\ current_lags' = current_lags + 1
    /\ UNCHANGED << table, pc, entry, n, model_type, lag_range, search, result >>

\* after the loop: p-value, verdict and the returned record
Finish(checks) ==
    /\ pc = "loop"
    /\ current_lags > lag_range[2]
    /\ LET ip == interpolate_p_value(table, optimal_test_statistic, checks)
       IN  /\ search' = SearchOf(ip)
           /\ IF ip.ok
              THEN /\ result' = [kind |-> "complete",
                                 test_statistic |-> optimal_test_statistic,
                                 optimal_lags |-> optimal_lags_used,
                                 aic_value |-> optimal_aic,
                                 p_value |-> ip.p,
                                 critical_values |-> critical_values,
                                 is_stationary |->
                                     determine_stationarity(optimal_test_statistic, ip.p)]
                   /\ pc' = "done"
              ELSE /\ pc' = "panic"
                   /\ UNCHANGED result
    /\ UNCHANGED << table, entry, n, model_type, lag_range, current_lags, min_aic,
                    optimal_test_statistic, optimal_lags_used, optimal_aic, evaluated >>

(* ------------------ get_adf_p_value_and_stationarity ------------------- *)
CallLookup(test_statistic, checks) ==
    /\ pc = "idle"
    /\ entry' = "lookup"
    /\ LET ip == interpolate_p_value(table, test_statistic, checks)
       IN  /\ search' = SearchOf(ip)
           /\ IF ip.ok
              THEN /\ result' = [kind |-> "lookup",
                                 statistic |-> test_statistic,
                                 p_value |-> ip.p,
                                 critical_values |-> critical_values,
                                 is_stationary |->
                                     determine_stationarity(test_statistic, ip.p)]
                   /\ pc' = "done"
              ELSE /\ result' = [kind |-> "aborted", statistic |-> test_statistic]
                   /\ pc' = "panic"
    /\ UNCHANGED << table, n, model_type, lag_range, current_lags, min_aic,
                    optimal_test_statistic, optimal_lags_used, optimal_aic, evaluated >>

Next ==
    \/ \E len \in 0..MaxLen, tag \in Tags : CallComplete(len, tag)
    \/ \E bb \in BlackBox : LoopStep(bb)
    \/ \E checks \in BOOLEAN : Finish(checks)
    \/ \E s \in StatVals, checks \in BOOLEAN : CallLookup(s, checks)

Spec == Init /\ [][Next]_vars

(* ---------------- the internal functions called on their own ----------- *)
UnitTags == {"ols", "OLS", "gls", ""}

InitUnit ==
    /\ table = ADF_P_VALUE_LOOKUP
    /\ pc = "idle"
    /\ entry = "none"
    /\ n = 0
    /\ model_type = ""
    /\ lag_range = << 0, 0 >>
    /\ current_lags = 0
    /\ min_aic = PosInf
    /\ optimal_test_statistic = 0
    /\ optimal_lags_used = 0
    /\ optimal_aic = PosInf
    /\ evaluated = << >>
    /\ search = NoSearch
    /\ result = NoResult

CallLagRange(len, tag) ==
    /\ pc = "idle"
    /\ entry' = "determine_lag_range"
    /\ n' = len
    /\ model_type' = tag
    /\ lag_range' = determine_lag_range(len, tag)
    /\ result' = [kind |-> "lag_range", min_lags |-> determine_lag_range(len, tag)[1],
                  max_lags |-> determine_lag_range(len, tag)[2]]
    /\ pc' = "done"
    /\ UNCHANGED << table, current_lags, min_aic, optimal_test_statistic,
                    optimal_lags_used, optimal_aic, evaluated, search >>

CallAdfForLags(len, lags, bb) ==
    /\ pc = "idle"
    /\ entry' = "calculate_adf_for_lags"
    /\ n' = len
    /\ current_lags' = lags
    /\ result' = [kind |-> "adf_for_lags", outcome |-> calculate_adf_for_lags(len, lags, bb)]
    /\ pc' = "done"
    /\ UNCHANGED << table, model_type, lag_range, min_aic, optimal_test_statistic,
                    optimal_lags_used, optimal_aic, evaluated, search >>

NextUnit ==
    \/ \E len \in 0..MaxSeriesLen, tag \in UnitTags : CallLagRange(len, tag)
    \/ \E len \in 0..MaxLen, lags \in 0..MaxUnitLag, bb \in BlackBox :
           CallAdfForLags(len, lags, bb)

SpecUnit == InitUnit /\ [][NextUnit]_vars

(* ------------------------------ properties ----------------------------- *)
\* indices of `evaluated` holding an outcome; index i is lag i - 1
Outcomes == { i \in 1..Len(evaluated) : evaluated[i].some }
AicOf(o) == calculate_aic(o.ssr, o.n_obs, o.n_params)
Returned5 == pc = "done" /\ entry = "complete" /\ n >= 5

\* C1: when some candidate lag yields an outcome, the returned optimal_lags is
\* such a candidate, aic_value is its AIC and is <= the AIC of every candidate
\* with an outcome, it is the lowest lag among those of minimal AIC, and
\* test_statistic is the statistic computed for that lag.
C1_AicMinimal ==
    (Returned5 /\ Outcomes # {}) =>
        LET k == result.optimal_lags + 1
        IN  /\ k \in Outcomes
            /\ result.optimal_lags \in lag_range[1]..lag_range[2]
            /\ result.aic_value = AicOf(evaluated[k])
            /\ result.test_statistic = evaluated[k].test_statistic
            /\ \A j \in Outcomes :
                   /\ result.aic_value <= AicOf(evaluated[j])
                   /\ AicOf(evaluated[j]) = result.aic_value => k <= j

\* a run in which two lags tie on the minimal AIC with different statistics
C1_Witness ==
    /\ Returned5
    /\ \E i, j \in Outcomes :
           /\ i < j
           /\ AicOf(evaluated[i]) = result.aic_value
           /\ AicOf(evaluated[j]) = result.aic_value
           /\ evaluated[i].test_statistic # evaluated[j].test_statistic
           /\ result.optimal_lags = i - 1

\* C2: no call of either entry point ends in an abort.
C2_AlwaysReturns == pc # "panic"

\* C3: a series of fewer than 5 observations gets the fixed degenerate record,
\* no candidate lag is evaluated and the lookup table is not consulted.
C3_ShortSeriesDefault ==
    (pc = "done" /\ entry = "complete" /\ n < 5) =>
        /\ result.test_statistic = 0
        /\ result.optimal_lags = 0
        /\ result.aic_value = PosInf
        /\ result.p_value = MkP(PScale)
        /\ result.is_stationary = FALSE
        /\ evaluated = << >>
        /\ ~search.called

C3_Witness == pc = "done" /\ entry = "complete" /\ n = 4 /\ model_type = "ols"

\* C4: when no candidate yields an outcome the sentinels 0.0 / 0 / +infinity are
\* returned, and an iteration changes the three best-so-far fields only when its
\* candidate yields an outcome whose AIC is strictly below the current best.
C4_SentinelsUnlessImproved ==
    /\ []((Returned5 /\ Outcomes = {}) =>
            /\ result.test_statistic = 0
            /\ result.optimal_lags = 0
            /\ result.aic_value = PosInf)
    /\ [][(pc = "loop" /\ << optimal_test_statistic, optimal_lags_used, optimal_aic >>' #
                          << optimal_test_statistic, optimal_lags_used, optimal_aic >>) =>
             /\ Len(evaluated') = Len(evaluated) + 1
             /\ evaluated'[Len(evaluated')].some
             /\ AicOf(evaluated'[Len(evaluated')]) < min_aic
             /\ optimal_aic' = AicOf(evaluated'[Len(evaluated')])]_vars

\* every candidate of a three-lag search failed
C4_Witness == Returned5 /\ Outcomes = {} /\ Len(evaluated) = 3

\* C5: under tag "ols" determine_lag_range returns (0, min(12, floor((n-3)/2)))
\* for n >= 3 and (0, 0) for n < 3, so 0 <= max_lag <= 12 and max_lag >= min_lag;
\* under every other tag it returns (0, 1); the range holds at most 13 lags.
C5_LagRange ==
    (pc = "done" /\ entry = "determine_lag_range") =>
        /\ result.min_lags = 0
        /\ result.max_lags >= result.min_lags
        /\ result.max_lags - result.min_lags + 1 <= 13
        /\ model_type = "ols" =>
               /\ result.max_lags >= 0 /\ result.max_lags <= 12
               /\ n >= 3 => \/ (result.max_lags = 12 /\ (n - 3) \div 2 >= 12)
                            \/ (result.max_lags = (n - 3) \div 2 /\ (n - 3) \div 2 <= 12)
               /\ n < 3 => result.max_lags = 0
        /\ model_type # "ols" => result.max_lags = 1

\* a series long enough for the cap of 12 to bind
C5_Witness ==
    /\ pc = "done" /\ entry = "determine_lag_range"
    /\ model_type = "ols" /\ (n - 3) \div 2 > 12 /\ result.max_lags = 12

\* the statistic handed to interpolate_p_value by the call in progress
LookupStat == IF entry = "lookup" THEN result.statistic ELSE optimal_test_statistic
Rows == 1..Len(table)
SmallestKey == table[1].key
LargestKey == table[Len(table)].key

\* C6: a statistic equal to a table key gets the p-value stored in a row of
\* that key, in any table in non-decreasing key order, repeated keys included.
C6_ExactKey ==
    (search.called /\ \E i \in Rows : table[i].key = LookupStat) =>
        /\ pc = "done"
        /\ \E i \in Rows : table[i].key = LookupStat /\ result.p_value = MkP(table[i].p)

\* the binary search hits an interior key that occurs in two rows
C6_Witness ==
    /\ pc = "done" /\ search.called /\ search.outcome = "match"
    /\ \E i, j \in Rows : i # j /\ table[i].key = LookupStat /\ table[j].key = LookupStat
                              /\ table[i].p # table[j].p

\* C7: a statistic <= the smallest key gets the first row's p-value, one >= the
\* largest key gets the last row's p-value, and the binary search is not entered.
C7_Clamp ==
    /\ (search.called /\ LookupStat # NaN /\ LookupStat <= SmallestKey) =>
           /\ pc = "done"
           /\ result.p_value = MkP(table[1].p)
           /\ ~search.entered
    /\ (search.called /\ LookupStat # NaN /\ LookupStat >= LargestKey) =>
           /\ pc = "done"
           /\ result.p_value = MkP(table[Len(table)].p)
           /\ ~search.entered

\* a statistic above the largest key, in a table whose ends differ in p-value
C7_Witness ==
    /\ pc = "done" /\ search.called
    /\ LookupStat # NaN /\ LookupStat > LargestKey
    /\ table[1].p # table[Len(table)].p

\* C8: is_stationary of every returned record is
\* (p_value <= 0.05 and statistic < -2.86) of the record's own fields;
\* statistic -2.86 with p_value 0.05 gives false.
C8_Stationarity ==
    /\ (pc = "done" /\ entry = "complete") =>
           result.is_stationary =
               (/\ result.p_value.num <= 5000 * result.p_value.den
                /\ result.test_statistic < -286)
    /\ (pc = "done" /\ entry = "lookup") =>
           result.is_stationary =
               (/\ result.p_value.num <= 5000 * result.p_value.den
                /\ result.statistic < -286)

\* the boundary: statistic -2.86 looked up to p-value 0.05 exactly
C8_Witness ==
    /\ pc = "done" /\ entry = "lookup"
    /\ result.statistic = -286
    /\ result.p_value = MkP(5000)
    /\ result.is_stationary = FALSE

\* C9: for a statistic strictly inside the key range that equals no key the
\* search ends with idx the largest row whose key is <= the statistic, idx + 1 is
\* a row, key[idx] < statistic < key[idx+1], and the result is
\* p[idx] + (statistic - key[idx]) * (p[idx+1] - p[idx]) / (key[idx+1] - key[idx]),
\* between p[idx] and p[idx+1] and within [0, 1].
C9_Interpolation ==
    (/\ search.called /\ LookupStat # NaN
     /\ SmallestKey < LookupStat /\ LookupStat < LargestKey
     /\ \A i \in Rows : table[i].key # LookupStat) =>
        LET lo == search.idx + 1      \* row idx, rows counted from 1
            hi == search.idx + 2
            pv == result.p_value
        IN  /\ pc = "done"
            /\ search.entered
            /\ lo \in Rows /\ hi \in Rows
            /\ \A i \in Rows : table[i].key <= LookupStat => i <= lo
            /\ table[lo].key < LookupStat /\ LookupStat < table[hi].key
            /\ pv.den = table[hi].key - table[lo].key
            /\ pv.den > 0
            /\ pv.num = table[lo].p * pv.den
                          + (LookupStat - table[lo].key) * (table[hi].p - table[lo].p)
            /\ Min(table[lo].p, table[hi].p) * pv.den <= pv.num
            /\ pv.num <= Max(table[lo].p, table[hi].p) * pv.den
            /\ 0 <= pv.num /\ pv.num <= PScale * pv.den

\* an interpolation strictly between two different p-values, not in the first interval
C9_Witness ==
    /\ pc = "done" /\ search.called /\ search.outcome = "interval"
    /\ search.idx >= 1
    /\ table[search.idx + 1].p # table[search.idx + 2].p
    /\ result.p_value.num # table[search.idx + 1].p * result.p_value.den

\* C10: calculate_adf_for_lags yields no outcome when the response slice is empty
\* or n_obs < n_params (n_obs = len - 1 - lag, n_params = 2 + lag), and every
\* outcome it yields carries those n_obs, n_params with n_obs >= n_params.
C10_Feasibility ==
    (pc = "done" /\ entry = "calculate_adf_for_lags") =>
        LET lag == current_lags
            slice_empty == n - 1 - lag <= 0
        IN  /\ (slice_empty \/ n - 1 - lag < 2 + lag) => ~result.outcome.some
            /\ result.outcome.some =>
                   /\ result.outcome.n_obs = n - 1 - lag
                   /\ result.outcome.n_params = 2 + lag
                   /\ result.outcome.n_obs >= result.outcome.n_params

\* a lag whose slice is non-empty but shorter than the parameter count
C10_Witness ==
    /\ pc = "done" /\ entry = "calculate_adf_for_lags"
    /\ n - 1 - current_lags > 0
    /\ n - 1 - current_lags < 2 + current_lags
    /\ ~result.outcome.some

====
